---- MODULE Spec2Model ----
(***************************************************************************)
(* Process-lifecycle supervisor of the policy controller                   *)
(* (policy-controller/src/main.rs): start-up, the four spawned tasks, the  *)
(* drain channel, the gRPC two-phase close and the five-way select! of     *)
(* main with its per-branch classification.                                *)
(*                                                                         *)
(* Granularity: one action per poll of a future.  A tokio task is polled   *)
(* by a worker thread, so the tasks and main interleave freely.  The       *)
(* futures nested in main's select! (shutdown, the four JoinHandles) are   *)
(* polled only by main, so all their progress happens inside MainPoll.     *)
(***************************************************************************)
EXTENDS Integers, Sequences, FiniteSets, TLC

\* Bound on the tasks that have ended and that main has not yet joined.
MaxResolved == 2

\* Bound on the length, in symbols, of a --cluster-networks value.
MaxLen == 3

VARIABLES
    mainPc,       \* position of main(): start-up step, "select" or "exited"
    exit,         \* result main() returned: "none", "ok" or the error context
    winner,       \* branch of main's select! that completed, or "none"
    task,         \* per spawned task: "Unspawned", "Running" or its join outcome
    started,      \* the tasks in the order main spawned them
    first,        \* the select! branch that resolved first, or "none"
    ready,        \* value of the watch::channel(false) written through ready_tx
    signaled,     \* the drain Signal has sent the drain signal
    watches,      \* live drain::Watch / ReleaseShutdown handles
    shutdownPc,   \* position of the shutdown() future
    ctrlc,        \* a ctrl-c notification is pending for tokio::signal::ctrl_c()
    term,         \* a SIGTERM notification is pending for sigterm()
    termOk,       \* signal(SignalKind::terminate()) returned Ok in sigterm()
    signalCount,  \* times the drain signal was sent
    drainCount,   \* times drain() returned
    grpcPc,       \* position of the grpc() future
    srv,          \* the server future: "none", "serving", "ok", "err"
    closeSent,    \* close_tx.send(()) has been executed
    inflight,     \* the gRPC server has accepted requests it has not completed
    trigServing,  \* the first OS trigger arrived while the server had a request in flight
    input,        \* a --cluster-networks value handed to IpNets::from_str
    nets          \* what from_str returned for it: [state, list]

vars == <<mainPc, exit, winner, task, started, first, ready, signaled,
          watches, shutdownPc, ctrlc, term, termOk, signalCount,
          drainCount, grpcPc, srv, closeSent, inflight, trigServing,
          input, nets>>

mainVars == <<mainPc, exit, winner>>
drainVars == <<signaled, watches, signalCount, drainCount>>
osVars == <<ctrlc, term, termOk, trigServing>>
grpcVars == <<grpcPc, srv, closeSent, inflight>>
parseVars == <<input, nets>>

\* The spawned tasks, and the branches of main's select! in source order.
Tasks == {"grpc", "index", "admin", "admission"}
Branches == <<"shutdown", "grpc", "index", "admin", "admission">>
NumBranches == Len(Branches)

\* Join outcomes of a task: it returned Ok(()) or an error value, or the join
\* failed with a JoinError that is a cancellation or a panic.  The outcome of a
\* join ranges over everything the match arms of main distinguish.
Joined == {"RetOk", "RetErr", "Cancelled", "Panicked"}
Faults == {"Cancelled", "Panicked"}

\* Values a task can return, by its output type: grpc() and admin::serve return
\* a Result, the index task returns the error itself, warp's run returns ().
Returns(t) ==
    CASE t = "index" -> {"RetErr"}
      [] t = "admission" -> {"RetOk"}
      [] OTHER -> {"RetOk", "RetErr"}

----------------------------------------------------------------------------
\* IpNets::from_str, the parser of the --cluster-networks value.

\* A value is a string over these symbols: the separator, and pieces of text
\* that hold no separator.
Comma == ","
Alphabet == {Comma, "10.0.0.0/8", "192.168.0.0/16", "10.0.0.0/33", "bad"}
Inputs == UNION {[1..n -> Alphabet] : n \in 0..MaxLen}

\* The texts of the form address/length, with the address and the prefix
\* length they denote.
Syntax ==
    ("10.0.0.0/8" :> [addr |-> "10.0.0.0", len |-> 8]) @@
    ("192.168.0.0/16" :> [addr |-> "192.168.0.0", len |-> 16]) @@
    ("10.0.0.0/33" :> [addr |-> "10.0.0.0", len |-> 33])

NoNet == [addr |-> "", len |-> 0]
Unparsed == [state |-> "unparsed", list |-> <<>>]

\* n.parse::<IpNet>(): the entry has to be one address/length text, whole,
\* with a prefix length an IPv4 address admits.
ParseIpNet(piece) ==
    IF /\ Len(piece) = 1
       /\ piece[1] \in DOMAIN Syntax
       /\ Syntax[piece[1]].len <= 32
    THEN [ok |-> TRUE, net |-> Syntax[piece[1]]]
    ELSE [ok |-> FALSE, net |-> NoNet]

\* s.split(','): the text before the first separator, then the split of the
\* text after it; a text without separator is one entry, the empty one too.
RECURSIVE Split(_)
Split(s) ==
    IF \A i \in 1..Len(s) : s[i] # Comma
    THEN <<s>>
    ELSE LET i == CHOOSE k \in 1..Len(s) :
                      s[k] = Comma /\ \A j \in 1..(k - 1) : s[j] # Comma
         IN <<SubSeq(s, 1, i - 1)>> \o Split(SubSeq(s, i + 1, Len(s)))

\* Mutant of IpNetsFromStr: entries that do not parse are skipped.
IpNetsFromStr_SkipInvalid(s) ==
    LET valid == SelectSeq(Split(s), LAMBDA p : ParseIpNet(p).ok)
    IN [state |-> "ok",
        list |-> [i \in 1..Len(valid) |-> ParseIpNet(valid[i]).net]]

\* .map(parse).collect::<Result<Vec<IpNet>>>().map(Self): the entries in
\* order when each one parses, otherwise the error and no list.
IpNetsFromStr(s) ==
    LET pieces == Split(s)
        results == [i \in 1..Len(pieces) |-> ParseIpNet(pieces[i])]
    IN IF \A i \in 1..Len(pieces) : results[i].ok
       THEN [state |-> "ok",
             list |-> [i \in 1..Len(pieces) |-> results[i].net]]
       ELSE [state |-> "err", list |-> <<>>]

\* One call of from_str on the value.
FromStr ==
    /\ nets = Unparsed
    /\ nets' = IpNetsFromStr(input)
    /\ UNCHANGED <<input, mainVars, task, started, first, ready, drainVars,
                   shutdownPc, osVars, grpcVars>>

\* Mutant of Init: the readiness channel is created holding true.
Init_ReadyTrue ==
    /\ mainPc = "args"
    /\ exit = "none"
    /\ winner = "none"
    /\ task = [t \in Tasks |-> "Unspawned"]
    /\ started = <<>>
    /\ first = "none"
    /\ ready = TRUE
    /\ signaled = FALSE
    /\ watches = 0
    /\ shutdownPc = "unpolled"
    /\ ctrlc = FALSE
    /\ term = FALSE
    /\ termOk = FALSE
    /\ signalCount = 0
    /\ drainCount = 0
    /\ grpcPc = "unspawned"
    /\ srv = "none"
    /\ closeSent = FALSE
    /\ inflight = FALSE
    /\ trigServing = FALSE
    /\ input = <<>>
    /\ nets = Unparsed

\* The process at the start of main(); the readiness channel is the
\* watch::channel(false) main creates.
Init ==
    /\ mainPc = "args"
    /\ exit = "none"
    /\ winner = "none"
    /\ task = [t \in Tasks |-> "Unspawned"]
    /\ started = <<>>
    /\ first = "none"
    /\ ready = FALSE
    /\ signaled = FALSE
    /\ watches = 0
    /\ shutdownPc = "unpolled"
    /\ ctrlc = FALSE
    /\ term = FALSE
    /\ termOk = FALSE
    /\ signalCount = 0
    /\ drainCount = 0
    /\ grpcPc = "unspawned"
    /\ srv = "none"
    /\ closeSent = FALSE
    /\ inflight = FALSE
    /\ trigServing = FALSE
    /\ input = <<>>
    /\ nets = Unparsed

----------------------------------------------------------------------------
\* Start-up of main().

\* Args::from_args(): a value that does not parse ends the process.
ParseArgs ==
    /\ mainPc = "args"
    /\ \E valid \in BOOLEAN :
         IF valid
         THEN /\ mainPc' = "channel"
              /\ exit' = exit
         ELSE /\ mainPc' = "exited"
              /\ exit' = "invalid arguments"
    /\ UNCHANGED parseVars
    /\ UNCHANGED <<winner, task, started, first, ready, drainVars,
                   shutdownPc, osVars, grpcVars>>

\* drain::channel(): main holds drain_tx and the one Watch drain_rx.
DrainChannel ==
    /\ mainPc = "channel"
    /\ mainPc' = "client"
    /\ watches' = 1
    /\ UNCHANGED parseVars
    /\ UNCHANGED <<exit, winner, task, started, first, ready, signaled,
                   signalCount, drainCount, shutdownPc, osVars, grpcVars>>

\* kube::Client::try_default().await.context(..)?
\* Mutant of InitClient: the admin server is spawned before the client is
\* initialised, so a client failure leaves it running.
InitClient_AfterAdmin ==
    /\ mainPc = "client"
    /\ \E ok \in BOOLEAN :
         IF ok
         THEN /\ mainPc' = "spawn_admin"
              /\ exit' = exit
              /\ UNCHANGED <<task, started>>
         ELSE /\ mainPc' = "exited"
              /\ exit' = "failed to initialize kubernetes client"
              /\ task' = [task EXCEPT !["admin"] = "Running"]
              /\ started' = Append(started, "admin")
    /\ UNCHANGED parseVars
    /\ UNCHANGED <<winner, first, ready, drainVars,
                   shutdownPc, osVars, grpcVars>>

InitClient ==
    /\ mainPc = "client"
    /\ \E ok \in BOOLEAN :
         IF ok
         THEN /\ mainPc' = "spawn_admin"
              /\ exit' = exit
         ELSE /\ mainPc' = "exited"
              /\ exit' = "failed to initialize kubernetes client"
    /\ UNCHANGED parseVars
    /\ UNCHANGED <<winner, task, started, first, ready, drainVars,
                   shutdownPc, osVars, grpcVars>>

Spawn(t, next) ==
    /\ task' = [task EXCEPT ![t] = "Running"]
    /\ started' = Append(started, t)
    /\ mainPc' = next

\* Mutant of SpawnAdmin: the admin server is given a clone of the drain Watch.
SpawnAdmin_WithWatch ==
    /\ mainPc = "spawn_admin"
    /\ Spawn("admin", "spawn_index")
    /\ watches' = watches + 1
    /\ UNCHANGED parseVars
    /\ UNCHANGED <<exit, winner, first, ready, signaled, signalCount,
                   drainCount, shutdownPc, osVars, grpcVars>>

SpawnAdmin ==
    /\ mainPc = "spawn_admin"
    /\ Spawn("admin", "spawn_index")
    /\ UNCHANGED parseVars
    /\ UNCHANGED <<exit, winner, first, ready, drainVars, shutdownPc,
                   osVars, grpcVars>>

SpawnIndex ==
    /\ mainPc = "spawn_index"
    /\ Spawn("index", "spawn_grpc")
    /\ UNCHANGED parseVars
    /\ UNCHANGED <<exit, winner, first, ready, drainVars, shutdownPc,
                   osVars, grpcVars>>

\* Mutant of SpawnGrpc: main enters the select! without spawning the admission
\* server.
SpawnGrpc_SkipAdmission ==
    /\ mainPc = "spawn_grpc"
    /\ Spawn("grpc", "select")
    /\ grpcPc' = "init"
    /\ UNCHANGED parseVars
    /\ UNCHANGED <<exit, winner, first, ready, drainVars, shutdownPc,
                   osVars, srv, closeSent, inflight>>

\* tokio::spawn(grpc(grpc_addr, handle, drain_rx)): the Watch moves into the task.
SpawnGrpc ==
    /\ mainPc = "spawn_grpc"
    /\ Spawn("grpc", "spawn_admission")
    /\ grpcPc' = "init"
    /\ UNCHANGED parseVars
    /\ UNCHANGED <<exit, winner, first, ready, drainVars, shutdownPc,
                   osVars, srv, closeSent, inflight>>

SpawnAdmission ==
    /\ mainPc = "spawn_admission"
    /\ Spawn("admission", "select")
    /\ UNCHANGED parseVars
    /\ UNCHANGED <<exit, winner, first, ready, drainVars, shutdownPc,
                   osVars, grpcVars>>

\* The process is alive: main has not returned.  The model ends where main
\* returns; the teardown of the runtime after that is not part of it.
Alive == mainPc # "exited"

----------------------------------------------------------------------------
\* The spawned tasks.  admin::serve, k8s::index and warp's server are run by
\* tokio::spawn from the moment they are spawned; main sees only the outcome of
\* each JoinHandle.

Resolve(t, outcome) ==
    /\ Cardinality({u \in Tasks : task[u] \in Joined}) < MaxResolved
    /\ task' = [task EXCEPT ![t] = outcome]
    /\ first' = IF first = "none" THEN t ELSE first

\* admin, index_task or admission returns a value of its output type.
TaskReturn(t) ==
    /\ Alive
    /\ t \in Tasks \ {"grpc"}
    /\ task[t] = "Running"
    /\ \E r \in Returns(t) : Resolve(t, r)
    /\ UNCHANGED parseVars
    /\ UNCHANGED <<mainVars, started, ready, drainVars, shutdownPc, osVars,
                   grpcVars>>

\* A task ends with a JoinError (panic or cancellation).  Its future is dropped,
\* and with the gRPC task's future every drain handle the task holds.
TaskFault(t) ==
    /\ Alive
    /\ task[t] = "Running"
    /\ \E f \in Faults : Resolve(t, f)
    /\ IF t = "grpc"
       THEN /\ watches' = 0
            /\ grpcPc' = "aborted"
            /\ inflight' = FALSE
       ELSE UNCHANGED <<watches, grpcPc, inflight>>
    /\ UNCHANGED parseVars
    /\ UNCHANGED <<mainVars, started, ready, signaled, signalCount, drainCount,
                   shutdownPc, osVars, srv, closeSent>>

\* The index task finishes its first synchronisation and writes ready_tx.
IndexReady ==
    /\ Alive
    /\ task["index"] = "Running"
    /\ ~ready
    /\ ready' = TRUE
    /\ UNCHANGED parseVars
    /\ UNCHANGED <<mainVars, task, started, first, drainVars, shutdownPc,
                   osVars, grpcVars>>

----------------------------------------------------------------------------
\* grpc(): the server future and the two-phase close.

\* First poll of grpc(): Server::new(handle, drain.clone()), the close channel,
\* server.serve(addr, close_rx), "gRPC server listening".
\* Mutant of GrpcStart: the server waits for readiness before it serves.
GrpcStart_AwaitReady ==
    /\ Alive
    /\ task["grpc"] = "Running"
    /\ grpcPc = "init"
    /\ ready
    /\ grpcPc' = "listening"
    /\ srv' = "serving"
    /\ watches' = watches + 1
    /\ UNCHANGED parseVars
    /\ UNCHANGED <<mainVars, task, started, first, ready, signaled,
                   signalCount, drainCount, shutdownPc, osVars, closeSent,
                   inflight>>

GrpcStart ==
    /\ Alive
    /\ task["grpc"] = "Running"
    /\ grpcPc = "init"
    /\ grpcPc' = "listening"
    /\ srv' = "serving"
    /\ watches' = watches + 1
    /\ UNCHANGED parseVars
    /\ UNCHANGED <<mainVars, task, started, first, ready, signaled,
                   signalCount, drainCount, shutdownPc, osVars, closeSent,
                   inflight>>

GrpcPolling == Alive /\ task["grpc"] = "Running" /\ grpcPc \in {"listening", "closing"}

\* The server accepts a request; after the close signal it accepts none.
SrvAccept ==
    /\ GrpcPolling
    /\ srv = "serving"
    /\ ~closeSent
    /\ inflight' = TRUE
    /\ UNCHANGED parseVars
    /\ UNCHANGED <<mainVars, task, started, first, ready, drainVars,
                   shutdownPc, osVars, grpcPc, srv, closeSent>>

\* The server completes the last request it has in flight.
SrvComplete ==
    /\ GrpcPolling
    /\ srv = "serving"
    /\ inflight
    /\ inflight' = FALSE
    /\ UNCHANGED parseVars
    /\ UNCHANGED <<mainVars, task, started, first, ready, drainVars,
                   shutdownPc, osVars, grpcPc, srv, closeSent>>

\* The server future resolves: Ok once it has no request in flight, Err at any
\* time (the requests in flight are then lost).
SrvResolve ==
    /\ GrpcPolling
    /\ srv = "serving"
    /\ \/ ~inflight /\ srv' = "ok"
       \/ srv' = "err"
    /\ inflight' = FALSE
    /\ UNCHANGED parseVars
    /\ UNCHANGED <<mainVars, task, started, first, ready, drainVars,
                   shutdownPc, osVars, grpcPc, closeSent>>

GrpcResult == IF srv = "ok" THEN "RetOk" ELSE "RetErr"

\* select! branch `res = (&mut srv) => res?`: the task returns the server's
\* result; the signaled() future and the server are dropped with their handles.
GrpcListenSrv ==
    /\ GrpcPolling
    /\ grpcPc = "listening"
    /\ srv \in {"ok", "err"}
    /\ Resolve("grpc", GrpcResult)
    /\ grpcPc' = "done"
    /\ watches' = 0
    /\ UNCHANGED parseVars
    /\ UNCHANGED <<mainVars, started, ready, signaled, signalCount, drainCount,
                   shutdownPc, osVars, srv, closeSent, inflight>>

\* Mutant of GrpcSignaled: the listener is not told to close.
GrpcSignaled_NoClose ==
    /\ GrpcPolling
    /\ grpcPc = "listening"
    /\ signaled
    /\ closeSent' = closeSent
    /\ grpcPc' = "closing"
    /\ UNCHANGED parseVars
    /\ UNCHANGED <<mainVars, task, started, first, ready, drainVars,
                   shutdownPc, osVars, srv, inflight>>

\* select! branch `handle = drain.signaled()`: the Watch becomes the release
\* handle and close_tx.send(()) tells the listener to close.
GrpcSignaled ==
    /\ GrpcPolling
    /\ grpcPc = "listening"
    /\ signaled
    /\ closeSent' = TRUE
    /\ grpcPc' = "closing"
    /\ UNCHANGED parseVars
    /\ UNCHANGED <<mainVars, task, started, first, ready, drainVars,
                   shutdownPc, osVars, srv, inflight>>

\* Mutant of GrpcRelease: the release handle is dropped without awaiting the
\* server future.
GrpcRelease_NoAwait ==
    /\ GrpcPolling
    /\ grpcPc = "closing"
    /\ grpcPc' = "drained"
    /\ watches' = watches - 1
    /\ UNCHANGED parseVars
    /\ UNCHANGED <<mainVars, task, started, first, ready, signaled,
                   signalCount, drainCount, shutdownPc, osVars, srv, closeSent,
                   inflight>>

\* handle.release_after(srv): once the server future has resolved the release
\* handle is dropped.
GrpcRelease ==
    /\ GrpcPolling
    /\ grpcPc = "closing"
    /\ srv \in {"ok", "err"}
    /\ grpcPc' = "drained"
    /\ watches' = watches - 1
    /\ UNCHANGED parseVars
    /\ UNCHANGED <<mainVars, task, started, first, ready, signaled,
                   signalCount, drainCount, shutdownPc, osVars, srv, closeSent,
                   inflight>>

\* `.await?` and `Ok(())`: grpc() returns the server's result and drops its locals.
GrpcReturn ==
    /\ Alive
    /\ task["grpc"] = "Running"
    /\ grpcPc = "drained"
    /\ Resolve("grpc", GrpcResult)
    /\ grpcPc' = "done"
    /\ watches' = 0
    /\ UNCHANGED parseVars
    /\ UNCHANGED <<mainVars, started, ready, signaled, signalCount, drainCount,
                   shutdownPc, osVars, srv, closeSent, inflight>>

----------------------------------------------------------------------------
\* OS signals.  A signal is modelled from the moment the process has a handler
\* for it, which shutdown() installs on its first poll.  tokio keeps one pending
\* notification per signal kind, so a signal delivered again before it is
\* consumed, or after shutdown() stopped listening, changes nothing.

Deliver ==
    /\ Alive
    /\ shutdownPc # "unpolled"
    /\ trigServing' = IF ctrlc \/ term THEN trigServing
                      ELSE task["grpc"] = "Running" /\ srv = "serving" /\ inflight

CtrlC ==
    /\ Deliver
    /\ ctrlc' = TRUE
    /\ UNCHANGED parseVars
    /\ UNCHANGED <<mainVars, task, started, first, ready, drainVars,
                   shutdownPc, term, termOk, grpcVars>>

Sigterm ==
    /\ Deliver
    /\ termOk
    /\ term' = TRUE
    /\ UNCHANGED parseVars
    /\ UNCHANGED <<mainVars, task, started, first, ready, drainVars,
                   shutdownPc, ctrlc, termOk, grpcVars>>

----------------------------------------------------------------------------
\* main's select! and the shutdown() future it polls.

\* Position of a branch in the select!, counted from 1.
Idx(b) == CHOOSE i \in DOMAIN Branches : Branches[i] = b

\* tokio::select! polls its branches in source order, cyclically, from a start
\* it picks at random on each poll: the place of branch b in that order.
Rank(b, start) == (Idx(b) - start) % NumBranches

\* Mutant of PollShutdown: drain() returns as soon as it has sent the signal,
\* without waiting for the handles.
PollShutdown_NoWait ==
    CASE shutdownPc = "unpolled" ->
             [pc |-> "waiting", signaled |-> signaled, sent |-> 0]
      [] shutdownPc = "waiting" /\ (ctrlc \/ term) ->
             [pc |-> "done", signaled |-> TRUE, sent |-> 1]
      [] OTHER ->
             [pc |-> shutdownPc, signaled |-> signaled, sent |-> 0]

\* Mutant of PollShutdown: a SIGTERM handler that failed to install counts as
\* a received SIGTERM.
PollShutdown_FailedInstall ==
    CASE shutdownPc = "unpolled" ->
             [pc |-> "waiting", signaled |-> signaled, sent |-> 0]
      [] shutdownPc = "waiting" /\ (ctrlc \/ term \/ ~termOk) ->
             [pc |-> IF watches = 0 THEN "done" ELSE "draining",
              signaled |-> TRUE, sent |-> 1]
      [] shutdownPc = "draining" /\ watches = 0 ->
             [pc |-> "done", signaled |-> signaled, sent |-> 0]
      [] OTHER ->
             [pc |-> shutdownPc, signaled |-> signaled, sent |-> 0]

\* Mutant of PollShutdown: drain() gives up waiting for the handles.
PollShutdown_Timeout ==
    CASE shutdownPc = "unpolled" ->
             [pc |-> "waiting", signaled |-> signaled, sent |-> 0]
      [] shutdownPc = "waiting" /\ (ctrlc \/ term) ->
             [pc |-> IF watches = 0 THEN "done" ELSE "draining",
              signaled |-> TRUE, sent |-> 1]
      [] shutdownPc = "draining" ->
             [pc |-> "done", signaled |-> signaled, sent |-> 0]
      [] OTHER ->
             [pc |-> shutdownPc, signaled |-> signaled, sent |-> 0]

\* Mutant of PollShutdown: drain() is called without waiting for ctrl-c or SIGTERM.
PollShutdown_NoTrigger ==
    CASE shutdownPc = "unpolled" ->
             [pc |-> "waiting", signaled |-> signaled, sent |-> 0]
      [] shutdownPc = "waiting" ->
             [pc |-> IF watches = 0 THEN "done" ELSE "draining",
              signaled |-> TRUE, sent |-> 1]
      [] shutdownPc = "draining" /\ watches = 0 ->
             [pc |-> "done", signaled |-> signaled, sent |-> 0]
      [] OTHER ->
             [pc |-> shutdownPc, signaled |-> signaled, sent |-> 0]

\* Mutant of PollShutdown: a trigger pending while drain() waits sends the
\* signal again.
PollShutdown_Resend ==
    CASE shutdownPc = "unpolled" ->
             [pc |-> "waiting", signaled |-> signaled, sent |-> 0]
      [] shutdownPc = "waiting" /\ (ctrlc \/ term) ->
             [pc |-> IF watches = 0 THEN "done" ELSE "draining",
              signaled |-> TRUE, sent |-> 1]
      [] shutdownPc = "draining" ->
             [pc |-> IF watches = 0 THEN "done" ELSE "draining",
              signaled |-> TRUE, sent |-> 1]
      [] OTHER ->
             [pc |-> shutdownPc, signaled |-> signaled, sent |-> 0]

\* One poll of shutdown().  The first poll installs the handlers and waits; a
\* pending ctrl-c or SIGTERM lets it go on to drain.drain(), which sends the
\* drain signal and returns once no Watch or release handle is left.
PollShutdown ==
    CASE shutdownPc = "unpolled" ->
             [pc |-> "waiting", signaled |-> signaled, sent |-> 0]
      [] shutdownPc = "waiting" /\ (ctrlc \/ term) ->
             [pc |-> IF watches = 0 THEN "done" ELSE "draining",
              signaled |-> TRUE, sent |-> 1]
      [] shutdownPc = "draining" /\ watches = 0 ->
             [pc |-> "done", signaled |-> signaled, sent |-> 0]
      [] OTHER ->
             [pc |-> shutdownPc, signaled |-> signaled, sent |-> 0]

\* The branches a poll of the select! finds ready: a JoinHandle whose task has
\* ended, and shutdown() if this poll takes it to its end.
ReadyBranches ==
    {t \in Tasks : task[t] \in Joined}
        \cup (IF PollShutdown.pc = "done" THEN {"shutdown"} ELSE {})

\* Mutant of Winner: once drain() has begun no branch completes the select!
\* before shutdown() does.
Winner_DrainFirst(start) ==
    IF ReadyBranches = {} THEN "none"
    ELSE IF shutdownPc = "draining" /\ "shutdown" \notin ReadyBranches THEN "none"
    ELSE CHOOSE b \in ReadyBranches :
             \A c \in ReadyBranches : Rank(b, start) <= Rank(c, start)

\* The branch that completes the select! polled from `start`: the first ready
\* one in polling order, "none" when every branch is pending.
Winner(start) ==
    IF ReadyBranches = {} THEN "none"
    ELSE CHOOSE b \in ReadyBranches :
             \A c \in ReadyBranches : Rank(b, start) <= Rank(c, start)

\* Mutant of GrpcBranch: the is_cancelled() guard is missing.
GrpcBranch_NoCancelGuard(outcome) ==
    CASE outcome = "RetOk" -> "ok"
      [] outcome = "RetErr" -> "grpc server failed"
      [] OTHER -> "grpc server panicked"

\* `res = grpc => match res { .. }`
GrpcBranch(outcome) ==
    CASE outcome = "RetOk" -> "ok"
      [] outcome = "RetErr" -> "grpc server failed"
      [] outcome = "Cancelled" -> "ok"
      [] OTHER -> "grpc server panicked"

\* Mutant of IndexBranch: a returned value counts as success.
IndexBranch_ReturnOk(outcome) ==
    CASE outcome \in {"RetOk", "RetErr"} -> "ok"
      [] outcome = "Cancelled" -> "ok"
      [] OTHER -> "indexer panicked"

\* `res = index_task => match res { .. }`: the value the task returns is the error.
IndexBranch(outcome) ==
    CASE outcome \in {"RetOk", "RetErr"} -> "indexer failed"
      [] outcome = "Cancelled" -> "ok"
      [] OTHER -> "indexer panicked"

\* Mutant of AdminBranch: the returned Result is discarded.
AdminBranch_DropResult(outcome) ==
    CASE outcome \in {"RetOk", "RetErr"} -> "ok"
      [] outcome = "Cancelled" -> "ok"
      [] OTHER -> "admin server panicked"

\* `res = admin => match res { .. }`
AdminBranch(outcome) ==
    CASE outcome = "RetOk" -> "ok"
      [] outcome = "RetErr" -> "admin server failed"
      [] outcome = "Cancelled" -> "ok"
      [] OTHER -> "admin server panicked"

\* `res = admission => res.context("admission server failed")`: res is the join
\* result Result<(), JoinError>, so the context applies to a JoinError only.
AdmissionBranch(outcome) ==
    IF outcome = "RetOk" THEN "ok" ELSE "admission server failed"

\* The per-branch handlers of the select!.
Classify(b, outcome) ==
    CASE b = "shutdown" -> "ok"
      [] b = "grpc" -> GrpcBranch(outcome)
      [] b = "index" -> IndexBranch(outcome)
      [] b = "admin" -> AdminBranch(outcome)
      [] OTHER -> AdmissionBranch(outcome)

\* Mutant of Outcome: after drain() the shutdown branch reports the result of
\* the gRPC task.
Outcome_ShutdownJoinsGrpc(b) ==
    IF b = "shutdown" THEN Classify("grpc", task["grpc"]) ELSE Classify(b, task[b])

\* Mutant of Outcome: main reports a failed task whichever branch completed.
Outcome_AnyFailed(b) ==
    IF \E t \in Tasks : task[t] = "RetErr"
    THEN LET t == CHOOSE u \in Tasks : task[u] = "RetErr" IN Classify(t, task[t])
    ELSE Classify(b, IF b = "shutdown" THEN "done" ELSE task[b])

\* What main returns when branch b completes the select!.
Outcome(b) == Classify(b, IF b = "shutdown" THEN "done" ELSE task[b])

\* One poll of main at the select!.  shutdown() is polled when it comes no later
\* than the winning branch in this poll's order; the first ready branch ends
\* main with its handler's result and the other futures are dropped.
MainPoll ==
    /\ mainPc = "select"
    /\ \E start \in 1..NumBranches,
          installed \in (IF shutdownPc = "unpolled" THEN BOOLEAN ELSE {termOk}) :
         LET w == Winner(start)
             polled == w = "none" \/ Rank("shutdown", start) <= Rank(w, start)
             sd == PollShutdown
         IN  /\ IF polled
                THEN /\ shutdownPc' = sd.pc
                     /\ signaled' = sd.signaled
                     /\ signalCount' = signalCount + sd.sent
                     /\ termOk' = installed
                ELSE UNCHANGED <<shutdownPc, signaled, signalCount, termOk>>
             /\ IF w = "none"
                THEN UNCHANGED <<mainVars, first, drainCount>>
                ELSE /\ mainPc' = "exited"
                     /\ winner' = w
                     /\ exit' = Outcome(w)
                     /\ drainCount' = IF w = "shutdown" THEN drainCount + 1 ELSE drainCount
                     /\ first' = IF first = "none" THEN w ELSE first
    /\ UNCHANGED parseVars
    /\ UNCHANGED <<task, started, ready, watches, ctrlc, term, trigServing,
                   grpcVars>>

----------------------------------------------------------------------------
Next ==
    \/ ParseArgs
    \/ DrainChannel
    \/ InitClient
    \/ SpawnAdmin
    \/ SpawnIndex
    \/ SpawnGrpc
    \/ SpawnAdmission
    \/ \E t \in Tasks : TaskReturn(t)
    \/ \E t \in Tasks : TaskFault(t)
    \/ IndexReady
    \/ GrpcStart
    \/ SrvAccept
    \/ SrvComplete
    \/ SrvResolve
    \/ GrpcListenSrv
    \/ GrpcSignaled
    \/ GrpcRelease
    \/ GrpcReturn
    \/ CtrlC
    \/ Sigterm
    \/ MainPoll

Spec == Init /\ [][Next]_vars

\* The supervisor while the admin, index and admission tasks keep running,
\* under the scheduling of the runtime: a task that can make progress is
\* polled again, and so is main.  Nothing is assumed of the server future, of
\* the requests or of the signals.
NextDrain ==
    \/ ParseArgs
    \/ DrainChannel
    \/ InitClient
    \/ SpawnAdmin
    \/ SpawnIndex
    \/ SpawnGrpc
    \/ SpawnAdmission
    \/ TaskFault("grpc")
    \/ IndexReady
    \/ GrpcStart
    \/ SrvAccept
    \/ SrvComplete
    \/ SrvResolve
    \/ GrpcListenSrv
    \/ GrpcSignaled
    \/ GrpcRelease
    \/ GrpcReturn
    \/ CtrlC
    \/ Sigterm
    \/ MainPoll

Fairness ==
    /\ WF_vars(MainPoll)
    /\ WF_vars(GrpcStart)
    /\ WF_vars(GrpcListenSrv)
    /\ WF_vars(GrpcSignaled)
    /\ WF_vars(GrpcRelease)
    /\ WF_vars(GrpcReturn)

FairSpec == Init /\ [][NextDrain]_vars /\ Fairness

\* The parser alone, applied to every value within the bound.
InitParse ==
    /\ input \in Inputs
    /\ nets = Unparsed
    /\ mainPc = "args"
    /\ exit = "none"
    /\ winner = "none"
    /\ task = [t \in Tasks |-> "Unspawned"]
    /\ started = <<>>
    /\ first = "none"
    /\ ready = FALSE
    /\ signaled = FALSE
    /\ watches = 0
    /\ shutdownPc = "unpolled"
    /\ ctrlc = FALSE
    /\ term = FALSE
    /\ termOk = FALSE
    /\ signalCount = 0
    /\ drainCount = 0
    /\ grpcPc = "unspawned"
    /\ srv = "none"
    /\ closeSent = FALSE
    /\ inflight = FALSE
    /\ trigServing = FALSE

NextParse == FromStr

SpecParse == InitParse /\ [][NextParse]_vars

----------------------------------------------------------------------------
\* Properties.

Exited == mainPc = "exited"
Triggered == ctrlc \/ term
SrvResolved == srv \in {"ok", "err"}

\* C1 as stated: if the OS trigger fires while the gRPC server has a request in
\* flight, the server future has resolved when the process exits, whatever the
\* other tasks do.
C1_Original == (Exited /\ trigServing) => SrvResolved

\* C1, amended: if the OS trigger fires while the gRPC server has a request in
\* flight, the server future has resolved when the process exits, unless the
\* race is won by the admin, indexer or admission task or the gRPC task ended
\* with a fault.
C1_InflightCompletes ==
    (Exited /\ trigServing /\ winner \in {"shutdown", "grpc"}
        /\ task["grpc"] \notin Faults) => SrvResolved

C1_Witness ==
    Exited /\ trigServing /\ winner = "shutdown" /\ srv = "ok"

\* C2 as stated: drain() does not return until the server future that the gRPC
\* service passed to release_after has resolved.
C2_Original == (shutdownPc = "done" /\ closeSent) => SrvResolved

\* C2, amended: drain() does not return while a drain watch or release handle
\* is alive; if the gRPC service awaited the signal, then by the time drain()
\* returns the server future passed to release_after has resolved or the gRPC
\* task has ended with a fault, which dropped its handle.
C2_DrainWaitsForRelease ==
    shutdownPc = "done" =>
        /\ watches = 0
        /\ closeSent => (SrvResolved \/ task["grpc"] \in Faults)

C2_Witness ==
    shutdownPc = "done" /\ closeSent /\ SrvResolved /\ task["grpc"] \notin Faults

\* C3 as stated: if the index task resolves for any reason while the process is
\* not draining, the process ends with the fatal "indexer failed".
C3_Original ==
    (Exited /\ winner = "index" /\ ~signaled) => exit = "indexer failed"

\* C3, amended: when the index task's resolution ends the race, the process ends
\* with "indexer failed" if the task returned, with "indexer panicked" if its
\* join failed with a fault that is not a cancellation, and with success exactly
\* when the join failure is a cancellation.
C3_IndexerEscalation ==
    (Exited /\ winner = "index") =>
        /\ task["index"] = "RetErr" => exit = "indexer failed"
        /\ task["index"] = "Panicked" => exit = "indexer panicked"
        /\ (exit = "ok") <=> (task["index"] = "Cancelled")

C3_Witness ==
    Exited /\ winner = "index" /\ task["index"] = "RetErr" /\ ~signaled
        /\ exit = "indexer failed"

\* C4: if the admission task resolves for any reason, the process exits with
\* the error "admission server failed" and never with success on that branch.
C4_AdmissionAlwaysFatal ==
    (Exited /\ winner = "admission") => exit = "admission server failed"

C6_FaultClassification ==
    \A t \in {"grpc", "index", "admin"} :
        (Exited /\ winner = t /\ task[t] \in Faults) =>
            /\ (exit = "ok") <=> (task[t] = "Cancelled")
            /\ task[t] = "Panicked" =>
                   exit = (CASE t = "grpc" -> "grpc server panicked"
                             [] t = "index" -> "indexer panicked"
                             [] OTHER -> "admin server panicked")

C6_Witness ==
    Exited /\ winner = "grpc" /\ task["grpc"] = "Cancelled" /\ exit = "ok"

\* C7: whenever the OS trigger has fired and drain() has returned, the process
\* has ended with success, whatever result the gRPC task returned after
\* releasing its handle.
C7_ShutdownIsClean ==
    drainCount > 0 => (Triggered /\ Exited /\ exit = "ok")

C7_Witness ==
    drainCount > 0 /\ closeSent /\ task["grpc"] = "RetErr" /\ exit = "ok"

\* C8 as stated: the process ends with the outcome of the branch that resolved
\* first.
C8_Original ==
    (Exited /\ winner # "none") => (winner = first /\ exit = Outcome(winner))

\* C8, amended: the process ends with the outcome of exactly one branch, one
\* that was resolved when main polled the race (not necessarily the first to
\* resolve when several resolved between two polls); once a branch has won
\* nothing more happens: no further wait, no drain signal, no drain() return.
C8_OneBranchDecides ==
    [][ /\ Exited => UNCHANGED vars
        /\ (~Exited /\ mainPc' = "exited" /\ winner' # "none") =>
               /\ mainPc = "select"
               /\ winner = "none"
               /\ winner' \in ReadyBranches
               /\ exit' = Classify(winner', IF winner' = "shutdown" THEN "done"
                                             ELSE task[winner'])
               /\ (winner' # "shutdown") => drainCount' = 0 ]_vars

C8_Witness ==
    Exited /\ winner = "admission" /\ first = "index" /\ ~signaled
        /\ exit = Outcome("admission")

C10_DrainOneShot ==
    signalCount <= 1 /\ drainCount <= 1

C10_Witness ==
    ctrlc /\ term /\ signalCount = 1 /\ drainCount = 1

\* C11: the readiness value is false when the process starts and stays false
\* until the index task writes it, it changes only in a step of the running
\* index task, and it never goes from true back to false.
C11_ReadinessMonotonic ==
    /\ ~ready
    /\ [][ /\ ready => ready'
           /\ (ready' # ready) =>
                  /\ task["index"] = "Running"
                  /\ UNCHANGED <<mainVars, task, started, grpcVars>> ]_vars

C11_Witness ==
    ready /\ task["index"] = "Running" /\ task["admin"] = "Running"

\* C12: when main has ended with a start-up configuration error (invalid
\* arguments or a failed Kubernetes client initialisation), no task was ever
\* spawned, no server was bound and the signal handlers were never installed.
C12_StartupErrorBeforeServices ==
    exit \in {"invalid arguments", "failed to initialize kubernetes client"} =>
        /\ mainPc = "exited"
        /\ winner = "none"
        /\ \A t \in Tasks : task[t] = "Unspawned"
        /\ started = <<>>
        /\ grpcPc = "unspawned"
        /\ srv = "none"
        /\ shutdownPc = "unpolled"
        /\ ~ready

C12_Witness ==
    mainPc = "exited" /\ exit = "failed to initialize kubernetes client"

\* A value in which every comma-separated entry is a valid CIDR: valid CIDR
\* texts at the odd positions, separators at the even ones, ending in an entry.
C13_ValidCidr(x) == x \in DOMAIN Syntax /\ Syntax[x].len <= 32

C13_AllEntriesValid(s) ==
    /\ Len(s) % 2 = 1
    /\ \A i \in 1..Len(s) :
          IF i % 2 = 1 THEN C13_ValidCidr(s[i]) ELSE s[i] = Comma

\* C13: from_str succeeds exactly on the values whose every entry is a valid
\* CIDR, then returning the networks of the entries in input order; on any
\* other value it fails and returns no list, whatever entries were valid.
C13_ParseAllOrNothing ==
    nets # Unparsed =>
        /\ nets.state = "ok" <=> C13_AllEntriesValid(input)
        /\ nets.state = "ok" =>
              /\ Len(nets.list) = (Len(input) + 1) \div 2
              /\ \A k \in 1..Len(nets.list) :
                    nets.list[k] = Syntax[input[2 * k - 1]]
        /\ nets.state # "ok" => nets.state = "err" /\ nets.list = <<>>
        /\ input = <<"10.0.0.0/8", Comma, "192.168.0.0/16">> =>
              nets.list = <<[addr |-> "10.0.0.0", len |-> 8],
                            [addr |-> "192.168.0.0", len |-> 16]>>
        /\ input = <<"10.0.0.0/8", Comma, "bad">> => nets.state = "err"

C13_Witness ==
    /\ input = <<"10.0.0.0/8", Comma, "192.168.0.0/16">>
    /\ nets.state = "ok"
    /\ Len(nets.list) = 2

\* The order in which main spawns the tasks.
C14_SpawnOrder == <<"admin", "index", "grpc", "admission">>

\* C14 as stated: when main blocks on the select! the tasks were started in
\* the order indexer, admin, gRPC, admission.
C14_Original ==
    mainPc = "select" => started = <<"index", "admin", "grpc", "admission">>

\* C14: the tasks are started in the order admin, indexer, gRPC, admission,
\* and the select! (with the shutdown future in it) is polled, and a branch
\* of it wins, only after all four were started.
C14_StartOrder ==
    /\ Len(started) <= Len(C14_SpawnOrder)
    /\ started = SubSeq(C14_SpawnOrder, 1, Len(started))
    /\ (mainPc = "select" \/ winner # "none" \/ shutdownPc # "unpolled") =>
           started = C14_SpawnOrder

C14_Witness ==
    mainPc = "select" /\ started = C14_SpawnOrder /\ shutdownPc = "waiting"

\* The steps of grpc() between its positions: the two-phase close, and the ends
\* of the task (it returns, or it is dropped by a fault).
C15_Transitions ==
    {<<"unspawned", "init">>, <<"init", "listening">>,
     <<"listening", "closing">>, <<"closing", "drained">>,
     <<"listening", "done">>, <<"drained", "done">>,
     <<"init", "aborted">>, <<"listening", "aborted">>,
     <<"closing", "aborted">>, <<"drained", "aborted">>}

\* C15 as stated, its last part: once the service has left Listening through
\* the close signal and holds its release handle no more, the server future has
\* resolved.
C15_Original ==
    (closeSent /\ grpcPc \notin {"listening", "closing"}) => SrvResolved

\* C15, amended: grpc() moves only Listening -> Closing -> Drained or ends; it
\* enters Closing only from Listening with the drain signal sent, and in that
\* step tells the listener to close; the close signal is never withdrawn; it
\* reaches Drained only from Closing with the server future resolved; and a
\* handle it holds while Closing is released only then, or by a fault of the
\* task.
C15_TwoPhaseClose ==
    [][ /\ grpcPc' # grpcPc => <<grpcPc, grpcPc'>> \in C15_Transitions
        /\ grpcPc' = "closing" =>
              /\ grpcPc \in {"listening", "closing"}
              /\ signaled
              /\ closeSent'
        /\ closeSent => closeSent'
        /\ closeSent' # closeSent => grpcPc = "listening" /\ grpcPc' = "closing"
        /\ (grpcPc' = "drained" /\ grpcPc # "drained") =>
              /\ grpcPc = "closing"
              /\ SrvResolved
              /\ ~inflight
              /\ watches' = watches - 1
        /\ (grpcPc = "closing" /\ watches' < watches) =>
              \/ SrvResolved /\ grpcPc' = "drained"
              \/ task'["grpc"] \in Faults /\ grpcPc' = "aborted"
        /\ (grpcPc = "listening" /\ grpcPc' = "done") => SrvResolved
      ]_vars

C15_Witness ==
    grpcPc = "drained" /\ closeSent /\ signaled /\ SrvResolved

\* C16 as stated, its second part: when the server future has resolved after
\* the close signal, grpc() has returned and no other task has resolved, the
\* process exits only with drain() completed.
C16_Original ==
    (/\ Exited
     /\ closeSent
     /\ SrvResolved
     /\ task["grpc"] \in {"RetOk", "RetErr"}
     /\ \A t \in Tasks \ {"grpc"} : task[t] = "Running") => shutdownPc = "done"

\* C16, amended: while the gRPC task runs and its server future has not
\* resolved, drain() does not return and the shutdown branch does not win,
\* however long that lasts; and once the server future has resolved after the
\* close signal, with the other three tasks still running, every handle is
\* eventually released and main exits, through the shutdown branch or through
\* the gRPC branch.
C16_NoDrainTimeout ==
    /\ []((task["grpc"] = "Running" /\ ~SrvResolved) =>
             (shutdownPc # "done" /\ winner # "shutdown"))
    /\ (mainPc = "select" /\ closeSent /\ SrvResolved)
           ~> (Exited /\ watches = 0 /\ winner \in {"shutdown", "grpc"})

C16_Witness ==
    /\ shutdownPc = "draining"
    /\ grpcPc = "closing"
    /\ srv = "serving"
    /\ inflight
    /\ task["grpc"] = "Running"

\* C17: the admin, index and admission tasks hold no drain handle and take no
\* part in the drain: once the drain channel exists a handle is alive exactly
\* while the gRPC task has not ended, and no step in which one of the three
\* tasks is spawned or ends changes the handles, the drain signal or the
\* position of shutdown().
C17_OnlyGrpcDrains ==
    /\ []((mainPc \notin {"args", "channel"} /\ exit # "invalid arguments") =>
             (watches = 0 <=> task["grpc"] \in Joined))
    /\ [][ (\E t \in Tasks \ {"grpc"} : task'[t] # task[t]) =>
              UNCHANGED <<watches, signaled, shutdownPc, grpcVars>> ]_vars

C17_Witness ==
    /\ Exited
    /\ winner = "shutdown"
    /\ exit = "ok"
    /\ \A t \in Tasks \ {"grpc"} : task[t] = "Running"

\* C18: the gRPC and admission servers do not wait for readiness: whatever the
\* readiness value, main can spawn each of them when it comes to it, and the
\* gRPC task can start serving once spawned.
C18_NotGatedOnReadiness ==
    /\ mainPc = "spawn_grpc" => ENABLED SpawnGrpc
    /\ mainPc = "spawn_admission" => ENABLED SpawnAdmission
    /\ (Alive /\ task["grpc"] = "Running" /\ grpcPc = "init") =>
           ENABLED GrpcStart

C18_Witness ==
    /\ ~ready
    /\ grpcPc = "listening"
    /\ srv = "serving"
    /\ task["grpc"] = "Running"
    /\ task["admission"] = "Running"

\* A task has ended while drain() is in progress and main is at the select!.
C19_ResolvedDuringDrain ==
    /\ mainPc = "select"
    /\ shutdownPc = "draining"
    /\ \E t \in Tasks : task[t] \in Joined

\* C19: while drain() is in progress main still races the four join handles:
\* when a task has ended, every poll of the select! completes it, whatever
\* branch it starts from, and the branch of that task completes it when polled
\* first; the poll that follows ends main, and when a task's branch wins it
\* the exit is the classification of that branch, the same as before any
\* trigger, with drain() left where it was.
C19_RaceDuringDrain ==
    /\ [](C19_ResolvedDuringDrain =>
             /\ \A start \in 1..NumBranches : Winner(start) # "none"
             /\ \A t \in Tasks :
                   task[t] \in Joined => Winner(Idx(t)) = t)
    /\ [][ (C19_ResolvedDuringDrain
              /\ (mainPc' # mainPc \/ shutdownPc' # shutdownPc)) =>
             /\ mainPc' = "exited"
             /\ winner' \in ReadyBranches
             /\ winner' \in Tasks =>
                   /\ exit' = Classify(winner', task[winner'])
                   /\ shutdownPc' = "draining"
                   /\ UNCHANGED <<drainCount, watches>> ]_vars

C19_Witness ==
    /\ Exited
    /\ winner = "index"
    /\ exit = "indexer failed"
    /\ shutdownPc = "draining"
    /\ watches > 0
    /\ grpcPc = "closing"

====
